---- MODULE Spec2Model ----
(***************************************************************************)
(* Model of generate_finetune_jsonl.py: the extraction of user-authored    *)
(* text from a conversation export, the token-limit / dedup / empty-filter *)
(* normalisation, the chat-record formatting and the run's exit status.    *)
(*                                                                         *)
(* Text is a sequence of one-character strings.  The alphabet of the input *)
(* is a letter and a newline; the formatter adds the space character.      *)
(***************************************************************************)
EXTENDS Integers, Sequences, FiniteSets, TLC

\* ------------------------------------------------------------------ bounds
MaxLen == 3        \* longest message handed to format_to_jsonl
MaxFrags == 2      \* most messages handed to format_to_jsonl
MaxTokens == 2     \* largest --max-tokens value tried
MaxTextLen == 2    \* longest text of a part of the export
MaxConvos == 2     \* most elements of the export's top level
MaxNodes == 2      \* most nodes in the export
MaxParts == 2      \* most parts in the export
MaxDups == 3       \* most messages handed to remove_duplicates alone
MaxKeyLen == 1     \* longest of those messages
MaxChars == 5      \* longest text handed to count_tokens alone

\* -------------------------------------------------------------------- text
NL == "\n"
SP == " "
Chars == {"a", NL}
Whitespace == {SP, NL}

Strings(n) == UNION {[1..k -> Chars] : k \in 0..n}

Min(a, b) == IF a < b THEN a ELSE b

RECURSIVE rstrip(_)
\* str.rstrip(): drop the trailing whitespace
rstrip(s) ==
    IF s = <<>> THEN <<>>
    ELSE IF s[Len(s)] \in Whitespace THEN rstrip(SubSeq(s, 1, Len(s) - 1))
    ELSE s

RECURSIVE lstrip(_)
lstrip(s) ==
    IF s = <<>> THEN <<>>
    ELSE IF s[1] \in Whitespace THEN lstrip(Tail(s))
    ELSE s

\* str.strip(): drop the leading and the trailing whitespace
strip(s) == lstrip(rstrip(s))

\* --------------------------------------------------------------- tokenizer
\* tiktoken's byte-pair encoding: the text starts as one symbol per
\* character, and the adjacent pair of lowest merge rank (leftmost on a tie)
\* is merged until no adjacent pair is in the merge table.  The table holds
\* the merges of cl100k_base over this alphabet: "a"+"a" and "\n"+"\n";
\* a letter and a newline never share a token.
Merges == << << <<"a">>, <<"a">> >>, << <<NL>>, <<NL>> >> >>

Rank(l, r) ==
    IF \E k \in 1..Len(Merges) : Merges[k] = <<l, r>>
    THEN CHOOSE k \in 1..Len(Merges) : Merges[k] = <<l, r>>
    ELSE 0

RECURSIVE byte_pair_merge(_)
byte_pair_merge(parts) ==
    LET cand == {i \in 1..(Len(parts) - 1) : Rank(parts[i], parts[i + 1]) > 0}
    IN  IF cand = {} THEN parts
        ELSE LET i == CHOOSE x \in cand : \A y \in cand :
                           \/ Rank(parts[x], parts[x + 1]) < Rank(parts[y], parts[y + 1])
                           \/ /\ Rank(parts[x], parts[x + 1]) = Rank(parts[y], parts[y + 1])
                              /\ x <= y
             IN  byte_pair_merge(SubSeq(parts, 1, i - 1)
                                 \o << parts[i] \o parts[i + 1] >>
                                 \o SubSeq(parts, i + 2, Len(parts)))

\* encoding.encode(text): the token sequence of a text
encode(text) == byte_pair_merge([i \in 1..Len(text) |-> << text[i] >>])

RECURSIVE decode(_)
\* encoding.decode(tokens): the concatenation of the tokens' characters
decode(tokens) ==
    IF tokens = <<>> THEN <<>> ELSE Head(tokens) \o decode(Tail(tokens))

\* count_tokens(text); ok is whether the tiktoken backend works
count_tokens(text, ok) ==
    IF ok THEN Len(encode(text)) ELSE Len(text) \div 4

truncate_to_tokens_off_by_one(text, max_tokens, ok) ==
    IF count_tokens(text, ok) <= max_tokens THEN text
    ELSE IF ok THEN decode(SubSeq(encode(text), 1, Min(max_tokens + 1, Len(encode(text)))))
    ELSE SubSeq(text, 1, Min(max_tokens * 4, Len(text)))

\* truncate_to_tokens(text, max_tokens)
truncate_to_tokens(text, max_tokens, ok) ==
    IF count_tokens(text, ok) <= max_tokens THEN text
    ELSE IF ok THEN decode(SubSeq(encode(text), 1, Min(max_tokens, Len(encode(text)))))
    ELSE SubSeq(text, 1, Min(max_tokens * 4, Len(text)))

\* -------------------------------------------------------------- normalizer
\* the truncation loop of format_to_jsonl
token_limited(messages, max_tokens, ok) ==
    [i \in 1..Len(messages) |->
        IF count_tokens(messages[i], ok) > max_tokens
        THEN truncate_to_tokens(messages[i], max_tokens, ok)
        ELSE messages[i]]

RECURSIVE dedup_loop(_, _, _)
dedup_loop(messages, seen, unique_messages) ==
    IF messages = <<>> THEN unique_messages
    ELSE IF Head(messages) \notin seen
         THEN dedup_loop(Tail(messages), seen \cup {Head(messages)},
                         Append(unique_messages, Head(messages)))
         ELSE dedup_loop(Tail(messages), seen, unique_messages)

RECURSIVE Reverse(_)
Reverse(s) == IF s = <<>> THEN <<>> ELSE Append(Reverse(Tail(s)), Head(s))

remove_duplicates_keeps_last(messages) ==
    Reverse(dedup_loop(Reverse(messages), {}, <<>>))

remove_duplicates(messages) == dedup_loop(messages, {}, <<>>)

filter_empty_entries_keeps_blank(messages) ==
    SelectSeq(messages, LAMBDA msg : msg # <<>>)

filter_empty_entries(messages) ==
    SelectSeq(messages, LAMBDA msg : strip(msg) # <<>>)

\* --------------------------------------------------------------- formatter
UserPrompt == "Write a blog post in my voice."

assistant_content_unstripped(msg) == <<SP>> \o msg \o <<NL>>

assistant_content(msg) == <<SP>> \o rstrip(msg) \o <<NL>>

\* one line of the output; json.dumps is one-to-one on these records
json_line(msg) ==
    [messages |-> << [role |-> "user", content |-> UserPrompt],
                     [role |-> "assistant", content |-> assistant_content(msg)] >>]

format_to_jsonl_dedup_first(messages, max_tokens, remove_duplicates_flag, ok) ==
    LET unique == IF remove_duplicates_flag THEN remove_duplicates(messages)
                  ELSE messages
        limited == token_limited(unique, max_tokens, ok)
        kept == filter_empty_entries(limited)
    IN  [i \in 1..Len(kept) |-> json_line(kept[i])]

format_to_jsonl(messages, max_tokens, remove_duplicates_flag, ok) ==
    LET limited == token_limited(messages, max_tokens, ok)
        unique == IF remove_duplicates_flag THEN remove_duplicates(limited)
                  ELSE limited
        kept == filter_empty_entries(unique)
    IN  [i \in 1..Len(kept) |-> json_line(kept[i])]

\* ------------------------------------------------------------ input shapes
\* What json.load can hand to main: the top-level value of the document.
\* "array" is a list of conversations; over an "object" the loop of
\* extract_user_messages walks the keys and over a "string" the characters;
\* a "scalar" (number, true, false, null) has no len().
TopKinds == {"array", "object", "string", "scalar"}
LoadFailures == {"not_found", "invalid_json", "unreadable"}

\* One element of the top-level value, as extract_user_messages sees it.
\*   not_dict      not a JSON object (a key or a character is one): no .get
\*   no_mapping    an object without "mapping"
\*   empty_mapping an object whose "mapping" is {} (or null)
\*   bad_mapping   an object whose "mapping" is a non-empty list or string
\*   mapping       an object whose "mapping" is a non-empty object
ConvoShapes == {"not_dict", "no_mapping", "empty_mapping", "bad_mapping", "mapping"}

Roles == {"user", "assistant", "none"}
ContentShapes == {"absent", "not_dict", "no_parts", "bad_parts", "parts"}

\* One value of the mapping.
\*   not_dict    not an object;      no_message  "message" absent or null
\*   bad_message "message" is a non-empty string or list
\*   bad_author  "author" is present and not an object
\*   message     a message object: the role of its author ("none" when the
\*               author or its role is absent) and the shape of its content
NodeShapes ==
    {[kind |-> k] : k \in {"not_dict", "no_message", "bad_message", "bad_author"}}
    \cup {[kind |-> "message", role |-> r, content |-> c] :
              r \in Roles, c \in ContentShapes}

Texts == Strings(MaxTextLen)

\* One element of "parts".
\*   str    a string;
\*   audio  {"content_type": "audio_transcription", "text": t};
\*   audio_no_text   the same without "text";
\*   audio_bad_text  the same with a "text" that is a number or null;
\*   dict   any other object, with its content_type ("absent" when it has
\*          none);   other  a number, a list, a boolean or null
PartShapes ==
    {[kind |-> "str", text |-> t] : t \in Texts}
    \cup {[kind |-> "audio", text |-> t] : t \in Texts}
    \cup {[kind |-> "audio_no_text"], [kind |-> "audio_bad_text"]}
    \cup {[kind |-> "dict", content_type |-> c] :
              c \in {"image_asset_pointer", "absent"}}
    \cup {[kind |-> "other"]}

NoConvo == "none"
NoNode == [kind |-> "none"]
NoPart == [kind |-> "none"]

\* ------------------------------------------------------------------- state
VARIABLES
    pc,                     \* where the run is
    top,                    \* what load_conversations met
    i,                      \* index of the conversation in the loop
    convo,                  \* the conversation bound by the loop
    node_id,                \* position of the node bound by the inner loop
    node,                   \* the node bound by the inner loop
    part,                   \* the part bound by the innermost loop
    conversation_messages,
    all_user_messages,
    error_entries,
    skipped_conversations,
    nodes_seen, parts_seen, \* how much of the export has been read
    errors_file,            \* errors.jsonl
    user_messages, max_tokens, remove_duplicates_flag, tokenizer_ok,
    jsonl_lines,
    output_file,
    write_error,            \* write_jsonl_output reported an error
    exit_code,
    unique_messages,        \* what remove_duplicates returned, called alone
    text,                   \* the argument of count_tokens and truncate_to_tokens
    token_count,            \* what count_tokens returned, called alone
    truncated               \* what truncate_to_tokens returned, called alone

extract_vars == <<i, convo, node_id, node, part, conversation_messages,
                  all_user_messages, error_entries, skipped_conversations,
                  nodes_seen, parts_seen>>
format_vars == <<user_messages, max_tokens, remove_duplicates_flag,
                 tokenizer_ok, jsonl_lines>>
call_vars == <<unique_messages, text, token_count, truncated>>
vars == <<pc, top, extract_vars, errors_file, format_vars, output_file,
          write_error, exit_code, call_vars>>

DefaultMaxTokens == 2048

\* A file of the run: as it was before the run (absent, or its old content),
\* holding all the lines written, or cut short by a failed write.
Untouched == [state |-> "untouched", lines |-> <<>>]
Written(lines) == [state |-> "written", lines |-> lines]
Partial == [state |-> "partial", lines |-> <<>>]

\* no function has been called alone
CallsIdle ==
    /\ unique_messages = <<>>
    /\ text = <<>>
    /\ token_count = 0
    /\ truncated = <<>>

\* the locals of extract_user_messages before its loop
ExtractLocalsInit ==
    /\ i = 0
    /\ convo = NoConvo
    /\ node_id = 0
    /\ node = NoNode
    /\ part = NoPart
    /\ conversation_messages = <<>>
    /\ all_user_messages = <<>>
    /\ error_entries = <<>>
    /\ skipped_conversations = 0
    /\ nodes_seen = 0
    /\ parts_seen = 0

\* main after parse_args: the options are set, nothing is read or written
Init ==
    /\ pc = "load"
    /\ top = "unread"
    /\ ExtractLocalsInit
    /\ errors_file = Untouched
    /\ user_messages = <<>>
    /\ max_tokens \in {1, DefaultMaxTokens}     \* --max-tokens 1, or the default
    /\ remove_duplicates_flag \in BOOLEAN
    /\ tokenizer_ok = TRUE
    /\ jsonl_lines = <<>>
    /\ output_file = Untouched
    /\ write_error = FALSE
    /\ exit_code = -1      \* the process has not exited
    /\ CallsIdle

\* ------------------------------------------------------------------- main
\* load_conversations and the len() of main's next line
LoadConversations ==
    /\ pc = "load"
    /\ \E outcome \in LoadFailures \cup TopKinds :
          /\ top' = outcome
          /\ IF outcome \in LoadFailures \cup {"scalar"}
             THEN pc' = "exit" /\ exit_code' = 1
             ELSE pc' = "loop" /\ exit_code' = exit_code
    /\ UNCHANGED <<extract_vars, errors_file, format_vars, output_file,
                   write_error, call_vars>>

\* ------------------------------------------------- extract_user_messages
exception_entry(idx) == [type |-> "exception", conversation_index |-> idx]

\* for i, convo in enumerate(conversations_data): the next element
NextConversation ==
    /\ pc = "loop"
    /\ i < MaxConvos
    /\ \E c \in ConvoShapes :
          /\ top # "array" => c = "not_dict"
          /\ c = "mapping" => nodes_seen < MaxNodes
          /\ convo' = c
    /\ pc' = "convo"
    /\ UNCHANGED <<top, i, node_id, node, part, conversation_messages,
                   all_user_messages, error_entries, skipped_conversations,
                   nodes_seen, parts_seen, errors_file, format_vars,
                   output_file, write_error, exit_code, call_vars>>

MissingMapping_uncounted ==
    /\ pc = "convo"
    /\ convo \in {"no_mapping", "empty_mapping"}
    /\ error_entries' = Append(error_entries,
                               [type |-> "missing_mapping", conversation_index |-> i])
    /\ i' = i + 1
    /\ convo' = NoConvo
    /\ pc' = "loop"
    /\ UNCHANGED <<top, node_id, node, part, conversation_messages,
                   all_user_messages, skipped_conversations, nodes_seen,
                   parts_seen, errors_file, format_vars, output_file,
                   write_error, exit_code, call_vars>>

\* if not mapping: the warning, the entry, the count, continue
MissingMapping ==
    /\ pc = "convo"
    /\ convo \in {"no_mapping", "empty_mapping"}
    /\ error_entries' = Append(error_entries,
                               [type |-> "missing_mapping", conversation_index |-> i])
    /\ skipped_conversations' = skipped_conversations + 1
    /\ i' = i + 1
    /\ convo' = NoConvo
    /\ pc' = "loop"
    /\ UNCHANGED <<top, node_id, node, part, conversation_messages,
                   all_user_messages, nodes_seen, parts_seen, errors_file,
                   format_vars, output_file, write_error, exit_code,
                   call_vars>>

\* conversation_messages = [] and the start of the loop over the mapping
EnterMapping ==
    /\ pc = "convo"
    /\ convo = "mapping"
    /\ conversation_messages' = <<>>
    /\ node_id' = 0
    /\ pc' = "nodeloop"
    /\ UNCHANGED <<top, i, convo, node, part, all_user_messages,
                   error_entries, skipped_conversations, nodes_seen,
                   parts_seen, errors_file, format_vars, output_file,
                   write_error, exit_code, call_vars>>

\* for node_id, node in mapping.items(): the next node
NextNode ==
    /\ pc = "nodeloop"
    /\ nodes_seen < MaxNodes
    /\ \E n \in NodeShapes :
          /\ (n.kind = "message" /\ n.role = "user" /\ n.content = "parts")
                => parts_seen < MaxParts
          /\ node' = n
    /\ node_id' = node_id + 1
    /\ nodes_seen' = nodes_seen + 1
    /\ pc' = "node"
    /\ UNCHANGED <<top, i, convo, part, conversation_messages,
                   all_user_messages, error_entries, skipped_conversations,
                   parts_seen, errors_file, format_vars, output_file,
                   write_error, exit_code, call_vars>>

\* the two "continue" of the node loop, and a user message without parts
SkipNode ==
    /\ pc = "node"
    /\ \/ node.kind = "no_message"
       \/ node.kind = "message" /\ node.role # "user"
       \/ node.kind = "message" /\ node.role = "user"
            /\ node.content \in {"absent", "no_parts"}
    /\ node' = NoNode
    /\ pc' = "nodeloop"
    /\ UNCHANGED <<top, i, convo, node_id, part, conversation_messages,
                   all_user_messages, error_entries, skipped_conversations,
                   nodes_seen, parts_seen, errors_file, format_vars,
                   output_file, write_error, exit_code, call_vars>>

EnterParts_any_role ==
    /\ pc = "node"
    /\ node.kind = "message" /\ node.content = "parts"
    /\ pc' = "partloop"
    /\ UNCHANGED <<top, extract_vars, errors_file, format_vars, output_file,
                   write_error, exit_code, call_vars>>

\* parts = content.get("parts", []) of a user message: the loop over them
EnterParts ==
    /\ pc = "node"
    /\ node.kind = "message" /\ node.role = "user" /\ node.content = "parts"
    /\ pc' = "partloop"
    /\ UNCHANGED <<top, extract_vars, errors_file, format_vars, output_file,
                   write_error, exit_code, call_vars>>

\* for part in parts: the next part
NextPart ==
    /\ pc = "partloop"
    /\ parts_seen < MaxParts
    /\ \E p \in PartShapes : part' = p
    /\ parts_seen' = parts_seen + 1
    /\ pc' = "part"
    /\ UNCHANGED <<top, i, convo, node_id, node, conversation_messages,
                   all_user_messages, error_entries, skipped_conversations,
                   nodes_seen, errors_file, format_vars, output_file,
                   write_error, exit_code, call_vars>>

\* the text a part carries, if it is one of the two text shapes
part_text(p) ==
    IF p.kind = "audio_no_text" THEN <<>> ELSE p.text

HandlePart_untrimmed ==
    /\ pc = "part"
    /\ part.kind # "audio_bad_text"
    /\ IF part.kind \in {"str", "audio", "audio_no_text"}
       THEN /\ conversation_messages' =
                  IF strip(part_text(part)) # <<>>
                  THEN Append(conversation_messages, part_text(part))
                  ELSE conversation_messages
            /\ error_entries' = error_entries
       ELSE /\ conversation_messages' = conversation_messages
            /\ error_entries' = Append(error_entries,
                  IF part.kind = "dict"
                  THEN [type |-> "non_text_content", conversation_index |-> i,
                        node_id |-> node_id,
                        content_type |-> IF part.content_type = "absent"
                                         THEN "unknown" ELSE part.content_type]
                  ELSE [type |-> "non_string_part", conversation_index |-> i,
                        node_id |-> node_id])
    /\ part' = NoPart
    /\ pc' = "partloop"
    /\ UNCHANGED <<top, i, convo, node_id, node, all_user_messages,
                   skipped_conversations, nodes_seen, parts_seen,
                   errors_file, format_vars, output_file, write_error,
                   exit_code, call_vars>>

\* the body of the loop over the parts, for a part that raises nothing
HandlePart ==
    /\ pc = "part"
    /\ part.kind # "audio_bad_text"
    /\ IF part.kind \in {"str", "audio", "audio_no_text"}
       THEN /\ conversation_messages' =
                  IF strip(part_text(part)) # <<>>
                  THEN Append(conversation_messages, strip(part_text(part)))
                  ELSE conversation_messages
            /\ error_entries' = error_entries
       ELSE /\ conversation_messages' = conversation_messages
            /\ error_entries' = Append(error_entries,
                  IF part.kind = "dict"
                  THEN [type |-> "non_text_content", conversation_index |-> i,
                        node_id |-> node_id,
                        content_type |-> IF part.content_type = "absent"
                                         THEN "unknown" ELSE part.content_type]
                  ELSE [type |-> "non_string_part", conversation_index |-> i,
                        node_id |-> node_id])
    /\ part' = NoPart
    /\ pc' = "partloop"
    /\ UNCHANGED <<top, i, convo, node_id, node, all_user_messages,
                   skipped_conversations, nodes_seen, parts_seen,
                   errors_file, format_vars, output_file, write_error,
                   exit_code, call_vars>>

\* the parts of the message are exhausted: back to the loop over the nodes
EndParts ==
    /\ pc = "partloop"
    /\ node' = NoNode
    /\ pc' = "nodeloop"
    /\ UNCHANGED <<top, i, convo, node_id, part, conversation_messages,
                   all_user_messages, error_entries, skipped_conversations,
                   nodes_seen, parts_seen, errors_file, format_vars,
                   output_file, write_error, exit_code, call_vars>>

\* the mapping is exhausted: all_user_messages.extend(conversation_messages)
EndMapping ==
    /\ pc = "nodeloop"
    /\ node_id >= 1
    /\ all_user_messages' = all_user_messages \o conversation_messages
    /\ conversation_messages' = <<>>
    /\ i' = i + 1
    /\ convo' = NoConvo
    /\ node_id' = 0
    /\ pc' = "loop"
    /\ UNCHANGED <<top, node, part, error_entries, skipped_conversations,
                   nodes_seen, parts_seen, errors_file, format_vars,
                   output_file, write_error, exit_code, call_vars>>

\* whether the statement the run is at raises: .get, .items or .strip on a
\* value that has none, or a loop over parts that are not iterable
Raises ==
    \/ pc = "convo" /\ convo \in {"not_dict", "bad_mapping"}
    \/ pc = "node" /\ node.kind \in {"not_dict", "bad_message", "bad_author"}
    \/ pc = "node" /\ node.kind = "message" /\ node.role = "user"
          /\ node.content \in {"not_dict", "bad_parts"}
    \/ pc = "part" /\ part.kind = "audio_bad_text"

ConversationException_reraises ==
    /\ Raises
    /\ pc' = "exit"
    /\ exit_code' = 1
    /\ UNCHANGED <<top, extract_vars, errors_file, format_vars, output_file,
                   write_error, call_vars>>

ConversationException_keeps_fragments ==
    /\ Raises
    /\ error_entries' = Append(error_entries, exception_entry(i))
    /\ skipped_conversations' = skipped_conversations + 1
    /\ all_user_messages' = all_user_messages \o conversation_messages
    /\ conversation_messages' = <<>>
    /\ i' = i + 1
    /\ convo' = NoConvo
    /\ node_id' = 0
    /\ node' = NoNode
    /\ part' = NoPart
    /\ pc' = "loop"
    /\ UNCHANGED <<top, nodes_seen, parts_seen, errors_file, format_vars,
                   output_file, write_error, exit_code, call_vars>>

\* except Exception: the entry, the count, continue
ConversationException ==
    /\ Raises
    /\ error_entries' = Append(error_entries, exception_entry(i))
    /\ skipped_conversations' = skipped_conversations + 1
    /\ conversation_messages' = <<>>
    /\ i' = i + 1
    /\ convo' = NoConvo
    /\ node_id' = 0
    /\ node' = NoNode
    /\ part' = NoPart
    /\ pc' = "loop"
    /\ UNCHANGED <<top, all_user_messages, nodes_seen, parts_seen,
                   errors_file, format_vars, output_file, write_error,
                   exit_code, call_vars>>

ExtractReturn_fatal ==
    /\ pc = "loop"
    /\ \E written \in {"ok", "open_failed", "write_failed"} :
          /\ errors_file' = IF error_entries = <<>> \/ written = "open_failed"
                            THEN errors_file
                            ELSE IF written = "ok" THEN Written(error_entries)
                            ELSE Partial
          /\ IF error_entries # <<>> /\ written # "ok"
             THEN pc' = "exit" /\ exit_code' = 1 /\ user_messages' = user_messages
             ELSE pc' = "format" /\ exit_code' = exit_code
                  /\ user_messages' = all_user_messages
    /\ UNCHANGED <<top, extract_vars, max_tokens, remove_duplicates_flag,
                   tokenizer_ok, jsonl_lines, output_file, write_error,
                   call_vars>>

\* after the loop: the summary, errors.jsonl, return all_user_messages
ExtractReturn ==
    /\ pc = "loop"
    /\ IF error_entries # <<>>
       THEN \E written \in {"ok", "open_failed", "write_failed"} :
               errors_file' = CASE written = "ok" -> Written(error_entries)
                                [] written = "open_failed" -> errors_file
                                [] OTHER -> Partial
       ELSE errors_file' = errors_file
    /\ user_messages' = all_user_messages
    /\ pc' = "format"
    /\ UNCHANGED <<top, extract_vars, max_tokens, remove_duplicates_flag,
                   tokenizer_ok, jsonl_lines, output_file, write_error,
                   exit_code, call_vars>>

\* ------------------------------------------------------------ format, write
\* format_to_jsonl as main calls it; the tiktoken backend works or fails
MainFormat ==
    /\ pc = "format"
    /\ top \in TopKinds
    /\ \E ok \in BOOLEAN :
          /\ tokenizer_ok' = ok
          /\ jsonl_lines' = format_to_jsonl(user_messages, max_tokens,
                                            remove_duplicates_flag, ok)
    /\ pc' = "write"
    /\ UNCHANGED <<top, extract_vars, errors_file, user_messages, max_tokens,
                   remove_duplicates_flag, output_file, write_error,
                   exit_code, call_vars>>

\* write_jsonl_output, then the end of main
WriteJsonlOutput ==
    /\ pc = "write"
    /\ top \in TopKinds
    /\ \E written \in {"ok", "open_failed", "write_failed"} :
          /\ output_file' = CASE written = "ok" -> Written(jsonl_lines)
                              [] written = "open_failed" -> output_file
                              [] OTHER -> Partial
          /\ write_error' = (written # "ok")
          /\ exit_code' = IF written = "ok" THEN 0 ELSE 1
    /\ pc' = "exit"
    /\ UNCHANGED <<top, extract_vars, errors_file, format_vars, call_vars>>

Next ==
    \/ LoadConversations
    \/ NextConversation
    \/ MissingMapping
    \/ EnterMapping
    \/ NextNode
    \/ SkipNode
    \/ EnterParts
    \/ NextPart
    \/ HandlePart
    \/ EndParts
    \/ EndMapping
    \/ ConversationException
    \/ ExtractReturn
    \/ MainFormat
    \/ WriteJsonlOutput

Spec == Init /\ [][Next]_vars

\* --------------------------------------------- format_to_jsonl on its own
MessageLists == UNION {[1..k -> Strings(MaxLen)] : k \in 0..MaxFrags}

\* format_to_jsonl called on a list of messages
FormatInit ==
    /\ pc = "format"
    /\ top = "direct"
    /\ ExtractLocalsInit
    /\ errors_file = Untouched
    /\ user_messages \in MessageLists
    /\ max_tokens \in 0..MaxTokens
    /\ remove_duplicates_flag \in BOOLEAN
    /\ tokenizer_ok \in BOOLEAN
    /\ jsonl_lines = <<>>
    /\ output_file = Untouched
    /\ write_error = FALSE
    /\ exit_code = -1      \* the process has not exited
    /\ CallsIdle

FormatToJsonl ==
    /\ pc = "format"
    /\ top = "direct"
    /\ jsonl_lines' = format_to_jsonl(user_messages, max_tokens,
                                      remove_duplicates_flag, tokenizer_ok)
    /\ pc' = "formatted"
    /\ UNCHANGED <<top, extract_vars, errors_file, user_messages, max_tokens,
                   remove_duplicates_flag, tokenizer_ok, output_file,
                   write_error, exit_code, call_vars>>

FormatNext == FormatToJsonl

SpecFormat == FormatInit /\ [][FormatNext]_vars

\* ------------------------------------------- remove_duplicates on its own
DupLists == UNION {[1..k -> Strings(MaxKeyLen)] : k \in 0..MaxDups}

\* remove_duplicates called on a list of messages, and then format_to_jsonl
\* on the same list with the default token limit
DedupInit ==
    /\ pc = "dedup"
    /\ top = "direct"
    /\ ExtractLocalsInit
    /\ errors_file = Untouched
    /\ user_messages \in DupLists
    /\ max_tokens = DefaultMaxTokens
    /\ remove_duplicates_flag \in BOOLEAN
    /\ tokenizer_ok = TRUE
    /\ jsonl_lines = <<>>
    /\ output_file = Untouched
    /\ write_error = FALSE
    /\ exit_code = -1      \* the process has not exited
    /\ CallsIdle

RemoveDuplicates ==
    /\ pc = "dedup"
    /\ unique_messages' = remove_duplicates(user_messages)
    /\ pc' = "format"
    /\ UNCHANGED <<top, extract_vars, errors_file, format_vars, output_file,
                   write_error, exit_code, text, token_count, truncated>>

DedupNext == RemoveDuplicates \/ FormatToJsonl

SpecDedup == DedupInit /\ [][DedupNext]_vars

\* ------------------------- count_tokens and truncate_to_tokens on their own
\* count_tokens and then truncate_to_tokens called on one text, the tiktoken
\* backend working or failing
TokenizerInit ==
    /\ pc = "count"
    /\ top = "direct"
    /\ ExtractLocalsInit
    /\ errors_file = Untouched
    /\ user_messages = <<>>
    /\ max_tokens \in 0..MaxTokens
    /\ remove_duplicates_flag = TRUE
    /\ tokenizer_ok \in BOOLEAN
    /\ jsonl_lines = <<>>
    /\ output_file = Untouched
    /\ write_error = FALSE
    /\ exit_code = -1      \* the process has not exited
    /\ unique_messages = <<>>
    /\ text \in Strings(MaxChars)
    /\ token_count = 0
    /\ truncated = <<>>

CountTokens ==
    /\ pc = "count"
    /\ token_count' = count_tokens(text, tokenizer_ok)
    /\ pc' = "counted"
    /\ UNCHANGED <<top, extract_vars, errors_file, format_vars, output_file,
                   write_error, exit_code, unique_messages, text, truncated>>

TruncateToTokens ==
    /\ pc = "counted"
    /\ truncated' = truncate_to_tokens(text, max_tokens, tokenizer_ok)
    /\ pc' = "truncated"
    /\ UNCHANGED <<top, extract_vars, errors_file, format_vars, output_file,
                   write_error, exit_code, unique_messages, text, token_count>>

TokenizerNext == CountTokens \/ TruncateToTokens

SpecTokenizer == TokenizerInit /\ [][TokenizerNext]_vars

\* ------------------------------------------------------------- properties
AssistantOf(line) == line.messages[2].content

\* the assistant content without its leading space and trailing newline
Unwrap(content) == SubSeq(content, 2, Len(content) - 1)

Blank(s) == \A n \in 1..Len(s) : s[n] \in Whitespace

\* r is t without its leading and trailing whitespace
IsTrimOf(r, t) ==
    /\ r # <<>> => r[1] \notin Whitespace /\ r[Len(r)] \notin Whitespace
    /\ \E a \in 0..Len(t) : \E b \in a..Len(t) :
          /\ r = SubSeq(t, a + 1, b)
          /\ Blank(SubSeq(t, 1, a))
          /\ Blank(SubSeq(t, b + 1, Len(t)))

Formatted == pc = "formatted"

TrimmedFragments ==
    \A k \in 1..Len(user_messages) :
        user_messages[k] # <<>> /\ strip(user_messages[k]) = user_messages[k]

\* C2: with deduplication enabled, no two records format_to_jsonl returns have
\* the same assistant content (stated for lists of trimmed fragments).
C2_NoDuplicateRecords ==
    (Formatted /\ remove_duplicates_flag /\ TrimmedFragments) =>
        \A j \in 1..Len(jsonl_lines) : \A k \in 1..Len(jsonl_lines) :
            j # k => AssistantOf(jsonl_lines[j]) # AssistantOf(jsonl_lines[k])

\* C3: the assistant content of every record format_to_jsonl returns holds a
\* character that is not whitespace.
C3_NoBlankRecord ==
    Formatted =>
        \A k \in 1..Len(jsonl_lines) : ~Blank(AssistantOf(jsonl_lines[k]))

\* a blank message and a message truncated to blank were dropped, another kept
C3_Witness ==
    /\ Formatted
    /\ \E k \in 1..Len(user_messages) :
          /\ ~Blank(user_messages[k])
          /\ Blank(truncate_to_tokens(user_messages[k], max_tokens, tokenizer_ok))
    /\ Len(jsonl_lines) = 1
    /\ Len(user_messages) = 2

\* C4: when the input is unparseable or its top level is a JSON object, the
\* run ends with a non-zero exit and the output file untouched.
C4_MalformedTopLevelIsFatal ==
    (pc = "exit" /\ top \in {"invalid_json", "object"}) =>
        (exit_code # 0 /\ output_file = Untouched)

\* C5: an exception inside conversation i is caught at the conversation
\* boundary: exactly one "exception" entry for i is appended, the skipped
\* count grows by one, the loop goes on with the next conversation, and the
\* fragment list is as it was before conversation i (only a conversation
\* that ends normally adds to it).
C5_ExceptionCaught ==
    [][/\ Raises =>
            /\ error_entries' = Append(error_entries, exception_entry(i))
            /\ skipped_conversations' = skipped_conversations + 1
            /\ all_user_messages' = all_user_messages
            /\ i' = i + 1
            /\ pc' = "loop"
       /\ (pc \in {"convo", "node", "partloop", "part"}) =>
            all_user_messages' = all_user_messages
       /\ (pc = "nodeloop" /\ all_user_messages' # all_user_messages) =>
            /\ pc' = "loop"
            /\ error_entries' = error_entries
            /\ skipped_conversations' = skipped_conversations
      ]_vars

\* conversation 0 raised, and conversation 1 after it gave its fragment
C5_Witness ==
    /\ pc = "loop" /\ i = 2
    /\ error_entries = <<exception_entry(0)>>
    /\ skipped_conversations = 1
    /\ all_user_messages # <<>>

\* C6: a conversation without mapping, or with an empty one, adds no
\* fragment and exactly one "missing_mapping" entry, counts as one skipped
\* conversation, and the loop goes on with the next conversation.
C6_MissingMapping ==
    [][(pc = "convo" /\ convo \in {"no_mapping", "empty_mapping"}) =>
            /\ error_entries' = Append(error_entries,
                  [type |-> "missing_mapping", conversation_index |-> i])
            /\ skipped_conversations' = skipped_conversations + 1
            /\ all_user_messages' = all_user_messages
            /\ conversation_messages' = conversation_messages
            /\ i' = i + 1
            /\ pc' = "loop"
      ]_vars

\* conversation 0 had no mapping, and conversation 1 after it gave a fragment
C6_Witness ==
    /\ pc = "loop" /\ i = 2
    /\ error_entries = <<[type |-> "missing_mapping", conversation_index |-> 0]>>
    /\ skipped_conversations = 1
    /\ all_user_messages # <<>>

\* C7: a fragment is only ever added while the parts of a message whose
\* author role is "user" are walked; a node without a message, or with a
\* message of another role, adds no fragment and no entry whatever its
\* content holds, and the loop goes on with the next node.
C7_UserOnly ==
    [][/\ (Len(conversation_messages') > Len(conversation_messages)) =>
            (pc = "part" /\ node.kind = "message" /\ node.role = "user")
       /\ (pc \in {"partloop", "part"}) =>
            (node.kind = "message" /\ node.role = "user")
       /\ (pc = "node" /\ (\/ node.kind = "no_message"
                           \/ node.kind = "message" /\ node.role # "user")) =>
            /\ conversation_messages' = conversation_messages
            /\ all_user_messages' = all_user_messages
            /\ error_entries' = error_entries
            /\ skipped_conversations' = skipped_conversations
            /\ pc' = "nodeloop"
      ]_vars

\* after a user message gave a fragment, an assistant message with parts is met
C7_Witness ==
    /\ pc = "node"
    /\ node.kind = "message" /\ node.role = "assistant" /\ node.content = "parts"
    /\ conversation_messages # <<>>
    /\ error_entries = <<>>

UnsupportedEntry(e, type) ==
    /\ e.type = type
    /\ e.conversation_index = i
    /\ e.node_id = node_id

\* C8: in a user message, a string part or an audio_transcription part with
\* non-blank text adds exactly its trimmed text as the last fragment and no
\* entry; a structured part of another content_type adds no fragment and
\* exactly one "non_text_content" entry; any other shape adds no fragment
\* and exactly one "non_string_part" entry; after an unsupported part the
\* loop over the parts of the same conversation goes on.
C8_PartHandling ==
    [][pc = "part" =>
        /\ (part.kind \in {"str", "audio"} /\ ~Blank(part.text)) =>
              /\ Len(conversation_messages') = Len(conversation_messages) + 1
              /\ SubSeq(conversation_messages', 1, Len(conversation_messages))
                    = conversation_messages
              /\ IsTrimOf(conversation_messages'[Len(conversation_messages')],
                          part.text)
              /\ error_entries' = error_entries
        /\ (part.kind \in {"dict", "other"}) =>
              /\ conversation_messages' = conversation_messages
              /\ Len(error_entries') = Len(error_entries) + 1
              /\ SubSeq(error_entries', 1, Len(error_entries)) = error_entries
              /\ UnsupportedEntry(error_entries'[Len(error_entries')],
                                  IF part.kind = "dict" THEN "non_text_content"
                                  ELSE "non_string_part")
              /\ pc' = "partloop"
              /\ i' = i
              /\ skipped_conversations' = skipped_conversations
      ]_vars

\* of the two parts of a user message, one was unsupported and logged and
\* the other gave its fragment
C8_Witness ==
    /\ pc = "partloop"
    /\ parts_seen = 2
    /\ Len(error_entries) = 1 /\ error_entries[1].type = "non_text_content"
    /\ conversation_messages = << <<"a">> >>

\* write_jsonl_output could not open or write the output file
OutputUnwritable == write_error

C10_Truncated(k) == truncate_to_tokens(user_messages[k], max_tokens, tokenizer_ok)

\* the message at k is not blank after truncation and, with deduplication,
\* no earlier message is equal to it after truncation
C10_Survives(k) ==
    /\ ~Blank(C10_Truncated(k))
    /\ remove_duplicates_flag =>
          \A j \in 1..(k - 1) : C10_Truncated(j) # C10_Truncated(k)

\* C10: the records of format_to_jsonl are those of the messages that
\* survive truncate, then deduplicate, then filter-empty, in order: two
\* messages that are equal only after truncation give a single record when
\* deduplication is enabled.
C10_PassOrder ==
    Formatted =>
        LET idx == SelectSeq([k \in 1..Len(user_messages) |-> k], C10_Survives)
        IN  /\ Len(jsonl_lines) = Len(idx)
            /\ \A m \in 1..Len(idx) :
                  AssistantOf(jsonl_lines[m]) =
                      <<SP>> \o rstrip(C10_Truncated(idx[m])) \o <<NL>>

\* two different messages, equal after truncation, gave one record
C10_Witness ==
    /\ Formatted /\ remove_duplicates_flag /\ tokenizer_ok
    /\ Len(user_messages) = 2
    /\ user_messages[1] # user_messages[2]
    /\ C10_Truncated(1) = C10_Truncated(2)
    /\ Len(jsonl_lines) = 1

\* the positions of user_messages that hold the first occurrence of a value
C11_FirstAt ==
    {k \in 1..Len(user_messages) :
        \A j \in 1..(k - 1) : user_messages[j] # user_messages[k]}

\* the positions of user_messages that hold a message that is not blank
C11_NonBlankAt == {k \in 1..Len(user_messages) : ~Blank(user_messages[k])}

\* the n-th smallest element of a set of positions
Nth(S, n) == CHOOSE k \in S : Cardinality({j \in S : j <= k}) = n

\* C11: remove_duplicates returns exactly the first occurrence of each
\* distinct message, in the original order, equality of the strings being
\* the key; with deduplication disabled every message that is not blank,
\* repeated or not, reaches the output in its original order.
C11_FirstOccurrences ==
    /\ pc \in {"format", "formatted"} =>
          /\ Len(unique_messages) = Cardinality(C11_FirstAt)
          /\ \A n \in 1..Len(unique_messages) :
                unique_messages[n] = user_messages[Nth(C11_FirstAt, n)]
          /\ \A m \in 1..Len(unique_messages) : \A n \in 1..Len(unique_messages) :
                m # n => unique_messages[m] # unique_messages[n]
          /\ {unique_messages[n] : n \in 1..Len(unique_messages)}
                = {user_messages[k] : k \in 1..Len(user_messages)}
    /\ (pc = "formatted" /\ ~remove_duplicates_flag) =>
          /\ Len(jsonl_lines) = Cardinality(C11_NonBlankAt)
          /\ \A n \in 1..Len(jsonl_lines) :
                Unwrap(AssistantOf(jsonl_lines[n]))
                    = rstrip(user_messages[Nth(C11_NonBlankAt, n)])

\* a message repeated around another one: the first of the two is kept by
\* remove_duplicates, and both give a record with deduplication disabled
C11_Witness ==
    /\ pc = "formatted" /\ ~remove_duplicates_flag
    /\ Len(user_messages) = 3
    /\ user_messages[1] = user_messages[3]
    /\ user_messages[1] # user_messages[2]
    /\ unique_messages = <<user_messages[1], user_messages[2]>>
    /\ Len(jsonl_lines) = 2

\* the positions of user_messages whose message survives the passes
C12_SurvivorsAt == {k \in 1..Len(user_messages) : C10_Survives(k)}

\* content is one space, then the fragment t without its trailing
\* whitespace, then one newline
C12_Wraps(content, t) ==
    /\ Len(content) >= 2
    /\ content[1] = SP
    /\ content[Len(content)] = NL
    /\ LET body == Unwrap(content)
       IN  /\ Len(body) <= Len(t)
           /\ body = SubSeq(t, 1, Len(body))
           /\ Blank(SubSeq(t, Len(body) + 1, Len(t)))
           /\ body # <<>> => body[Len(body)] \notin Whitespace

\* C12: format_to_jsonl emits exactly one record per surviving fragment, in
\* order; a record is the fixed user turn followed by an assistant turn whose
\* content is a space, the fragment with its trailing whitespace stripped,
\* and a newline; no record is emitted for a fragment that did not survive.
C12_RecordShape ==
    Formatted =>
        /\ Len(jsonl_lines) = Cardinality(C12_SurvivorsAt)
        /\ \A n \in 1..Len(jsonl_lines) :
              LET line == jsonl_lines[n]
              IN  /\ DOMAIN line = {"messages"}
                  /\ Len(line.messages) = 2
                  /\ line.messages[1] = [role |-> "user", content |-> UserPrompt]
                  /\ line.messages[2].role = "assistant"
                  /\ DOMAIN line.messages[2] = {"role", "content"}
                  /\ C12_Wraps(line.messages[2].content,
                               C10_Truncated(Nth(C12_SurvivorsAt, n)))

\* a surviving fragment that ends in whitespace next to a fragment that did
\* not survive: one record, for the first of them
C12_Witness ==
    /\ Formatted
    /\ Len(user_messages) = 2
    /\ C12_SurvivorsAt = {1}
    /\ C10_Truncated(1)[Len(C10_Truncated(1))] \in Whitespace
    /\ Len(jsonl_lines) = 1

\* n / 4 rounded up
C13_CeilQuarter(n) == (n + 3) \div 4

\* C13: when the tokenizer backend fails, count_tokens returns
\* ceil(len(text)/4) and truncate_to_tokens returns the first limit*4
\* characters of the text.
C13_FallbackEstimates ==
    (pc = "truncated" /\ ~tokenizer_ok) =>
        /\ token_count = C13_CeilQuarter(Len(text))
        /\ truncated = SubSeq(text, 1, Min(max_tokens * 4, Len(text)))

\* the run is inside the try block of conversation i
C14_InConversation == pc \in {"convo", "nodeloop", "node", "partloop", "part"}

\* C14: when an exception is raised part-way through conversation i, the
\* fragments gathered for it so far are discarded and those of the earlier
\* conversations stay as they were, while the diagnostic entries already
\* appended, those of the parts of conversation i among them, are kept and
\* are followed by the "exception" entry of conversation i. The fragment
\* list grows only when a conversation ends normally, by the fragments of
\* that conversation alone, which are gathered from an empty list.
C14_AllOrNothing ==
    [][/\ Raises =>
            /\ all_user_messages' = all_user_messages
            /\ Len(error_entries') = Len(error_entries) + 1
            /\ SubSeq(error_entries', 1, Len(error_entries)) = error_entries
            /\ error_entries'[Len(error_entries')].type = "exception"
            /\ error_entries'[Len(error_entries')].conversation_index = i
            /\ pc' = "loop"
       /\ (pc = "convo" /\ pc' = "nodeloop") => conversation_messages' = <<>>
       /\ (C14_InConversation /\ i' = i) =>
            /\ all_user_messages' = all_user_messages
            /\ \A n \in 1..Len(error_entries) : error_entries'[n] = error_entries[n]
            /\ \A n \in (Len(error_entries) + 1)..Len(error_entries') :
                  error_entries'[n].conversation_index = i
       /\ all_user_messages' # all_user_messages =>
            /\ pc = "nodeloop" /\ ~Raises
            /\ all_user_messages' = all_user_messages \o conversation_messages
            /\ error_entries' = error_entries
      ]_vars

\* the exception is raised in conversation i after a fragment was gathered
\* for it and an entry was appended for one of its parts
C14_Witness ==
    /\ Raises
    /\ conversation_messages # <<>>
    /\ \E n \in 1..Len(error_entries) :
          /\ error_entries[n].conversation_index = i
          /\ error_entries[n].type \in {"non_text_content", "non_string_part"}

====
